---- MODULE Spec2Model ----
(***************************************************************************)
(* Model of the Atomo editor (src/atomo.py): the AtomoEditor object, its   *)
(* run loop and the handlers the loop dispatches to.  A line of text is a  *)
(* sequence of one-character strings; the buffer is a sequence of lines.   *)
(* One action is one key read by getch() together with the whole handler   *)
(* it selects and the draw() that follows at the top of the loop.          *)
(***************************************************************************)
EXTENDS Integers, Sequences, FiniteSets, TLC

VARIABLES
    lines,          \* self.lines
    cursor_y,       \* self.cursor_y
    cursor_x,       \* self.cursor_x
    offset_y,       \* self.offset_y
    offset_x,       \* self.offset_x
    modified,       \* self.modified
    message,        \* self.message (the text without the interpolated values)
    message_type,   \* self.message_type
    filename,       \* self.filename (None or a name)
    cut_buffer,     \* run(): local cut_buffer
    max_y,          \* stdscr.getmaxyx()[0]
    max_x,          \* stdscr.getmaxyx()[1]
    screen,         \* the argument of the last stdscr.move of draw(), or NoMove
    disk,           \* contents of the file system, by path
    mode,           \* where the run loop is blocked in getch()
    exit_via        \* the return statement of confirm_exit that ended the loop

vars == <<lines, cursor_y, cursor_x, offset_y, offset_x, modified, message,
          message_type, filename, cut_buffer, max_y, max_x, screen, disk,
          mode, exit_via>>

(***************************************************************************)
(* Bounds of the model.                                                    *)
(***************************************************************************)
MaxLines  == 2      \* lines in the buffer
MaxChars  == 4      \* characters in the buffer and the cut buffer together
MaxTyped  == 1      \* characters held when a printable key is still typed
MaxFile   == 2      \* characters of a file on disk
MaxSize   == 2      \* usable rows, and columns, of the terminal
SearchLines == 3    \* lines of a buffer that is searched
SearchLen   == 3    \* characters of a line that is searched
SearchChars == 4    \* characters of a buffer that is searched

(***************************************************************************)
(* Program constants.                                                      *)
(***************************************************************************)
ReservedRows == 4

None    == <<>>                 \* None and the empty string: both are false to Python
NoMove  == <<-1, -1>>
NoFile  == <<"no such file">>   \* os.path.exists() is false
NL      == "\n"
SP      == " "
TabText == <<SP, SP, SP, SP>>

Chars     == {"a"}                 \* keys 32..126 that are typed
FileChars == {"a", NL}             \* characters of a file at startup
Names     == {<<"f">>}             \* paths
NameInput == {<<>>, <<SP>>, <<"f">>, <<"f", SP>>}
QueryInput == {<<>>, <<SP>>, <<"a">>, <<SP, "a">>, <<"a", "a">>, <<"a", SP, "a">>}

\* the sizes getmaxyx() reports: n usable rows under n columns
Sizes == {<<ReservedRows + n, n>> : n \in 1..MaxSize}

(***************************************************************************)
(* Python built-ins, as they behave.                                       *)
(***************************************************************************)
Min(a, b) == IF a < b THEN a ELSE b
Max(a, b) == IF a > b THEN a ELSE b

\* s[i:j] for 0 <= i, 0 <= j: the indices saturate at len(s)
Slice(s, i, j) == SubSeq(s, Min(i, Len(s)) + 1, Min(j, Len(s)))

\* s[i:] for 0 <= i
SliceFrom(s, i) == Slice(s, i, Len(s))

\* s.startswith(q, i)
MatchAt(s, q, i) == /\ i + Len(q) <= Len(s)
                    /\ \A k \in 1..Len(q) : s[i + k] = q[k]

\* s.find(q): the lowest 0-based index at which q occurs in s, or -1
StrFind(s, q) ==
    LET hits == {i \in 0..Len(s) : MatchAt(s, q, i)}
    IN  IF hits = {} THEN -1
        ELSE CHOOSE i \in hits : \A j \in hits : i <= j

\* s.strip() over the characters of the model: blanks at both ends go
RECURSIVE LStrip(_)
LStrip(s) == IF s # <<>> /\ Head(s) \in {SP, NL} THEN LStrip(Tail(s)) ELSE s

RECURSIVE RStrip(_)
RStrip(s) == IF s # <<>> /\ s[Len(s)] \in {SP, NL}
             THEN RStrip(SubSeq(s, 1, Len(s) - 1)) ELSE s

Strip(s) == RStrip(LStrip(s))

\* list.pop(i), the list that is left (0-based i)
ListPop(l, i) == SubSeq(l, 1, i) \o SubSeq(l, i + 2, Len(l))

\* list.insert(i, x) (0-based i; an i past the end appends)
ListInsert(l, i, x) ==
    SubSeq(l, 1, Min(i, Len(l))) \o <<x>> \o SubSeq(l, Min(i, Len(l)) + 1, Len(l))

\* l[i] = x (0-based i)
ListSet(l, i, x) == [l EXCEPT ![i + 1] = x]

\* l[i] (0-based i)
At(l, i) == l[i + 1]

\* '\n'.join(l)
RECURSIVE Join(_)
Join(l) == IF l = <<>> THEN <<>>
           ELSE IF Len(l) = 1 THEN l[1]
           ELSE l[1] \o <<NL>> \o Join(Tail(l))

\* s.splitlines() over the characters of the model: the text is cut at
\* every line terminator and a terminator at the very end opens no line
RECURSIVE SplitLines(_, _)
SplitLines(s, cur) ==
    IF s = <<>> THEN (IF cur = <<>> THEN <<>> ELSE <<cur>>)
    ELSE IF Head(s) = NL THEN <<cur>> \o SplitLines(Tail(s), <<>>)
    ELSE SplitLines(Tail(s), Append(cur, Head(s)))

RECURSIVE TotalChars(_)
TotalChars(l) == IF l = <<>> THEN 0 ELSE Len(Head(l)) + TotalChars(Tail(l))

\* all sequences over S of length at most n
RECURSIVE SeqsUpTo(_, _)
SeqsUpTo(S, n) ==
    IF n = 0 THEN {<<>>}
    ELSE LET shorter == SeqsUpTo(S, n - 1)
         IN  shorter \cup {Append(s, c) : s \in shorter, c \in S}


(***************************************************************************)
(* The editor object together with the terminal size it reads and the      *)
(* file system it writes, as one record the methods below transform.       *)
(***************************************************************************)
Self == [lines |-> lines, cursor_y |-> cursor_y, cursor_x |-> cursor_x,
         offset_y |-> offset_y, offset_x |-> offset_x, modified |-> modified,
         message |-> message, message_type |-> message_type,
         filename |-> filename, max_y |-> max_y, max_x |-> max_x,
         disk |-> disk]

\* the assignment of a record of the shape of Self to the next state
Becomes(e) ==
    /\ lines' = e.lines
    /\ cursor_y' = e.cursor_y
    /\ cursor_x' = e.cursor_x
    /\ offset_y' = e.offset_y
    /\ offset_x' = e.offset_x
    /\ modified' = e.modified
    /\ message' = e.message
    /\ message_type' = e.message_type
    /\ filename' = e.filename
    /\ max_y' = e.max_y
    /\ max_x' = e.max_x
    /\ disk' = e.disk

\* get_dimensions(): the usable (height, width)
get_dimensions(e) == <<e.max_y - ReservedRows, e.max_x>>

\* adjust_scroll(), one axis, as it would be if a cursor before the window
\* were put on the last row or column of the window
scroll_axis_to_far_edge(cur, off, size) ==
    IF cur < off THEN cur - size + 1
    ELSE IF cur >= off + size THEN cur - size + 1
    ELSE off

\* adjust_scroll(), one axis, as it would be if the window were moved a full
\* size past a cursor beyond its far edge
scroll_axis_full_size(cur, off, size) ==
    IF cur < off THEN cur
    ELSE IF cur >= off + size THEN cur - size
    ELSE off

\* adjust_scroll(), one axis: the offset that keeps cur inside [off, off + size)
scroll_axis(cur, off, size) ==
    IF cur < off THEN cur
    ELSE IF cur >= off + size THEN cur - size + 1
    ELSE off

adjust_scroll(e) ==
    LET height == get_dimensions(e)[1]
        width  == get_dimensions(e)[2]
    IN  [e EXCEPT !.offset_y = scroll_axis(e.cursor_y, e.offset_y, height),
                  !.offset_x = scroll_axis(e.cursor_x, e.offset_x, width)]

\* move_cursor() as it would be if the column were clamped to the line the
\* cursor leaves
move_cursor_old_line(e, dy, dx) ==
    LET y == Max(0, Min(Len(e.lines) - 1, e.cursor_y + dy))
        x == Max(0, Min(Len(At(e.lines, e.cursor_y)), e.cursor_x + dx))
    IN  adjust_scroll([e EXCEPT !.message = "", !.cursor_y = y, !.cursor_x = x])

move_cursor(e, dy, dx) ==
    LET y == Max(0, Min(Len(e.lines) - 1, e.cursor_y + dy))
        x == Max(0, Min(Len(At(e.lines, y)), e.cursor_x + dx))
    IN  adjust_scroll([e EXCEPT !.message = "", !.cursor_y = y, !.cursor_x = x])

\* insert_char() as it would be if the character replaced the one under the
\* cursor
insert_char_over(e, char) ==
    LET line == At(e.lines, e.cursor_y)
        new  == Slice(line, 0, e.cursor_x) \o char \o SliceFrom(line, e.cursor_x + 1)
    IN  adjust_scroll([e EXCEPT !.lines = ListSet(e.lines, e.cursor_y, new),
                                !.cursor_x = e.cursor_x + 1,
                                !.modified = TRUE,
                                !.message = ""])

insert_char(e, char) ==
    LET line == At(e.lines, e.cursor_y)
        new  == Slice(line, 0, e.cursor_x) \o char \o SliceFrom(line, e.cursor_x)
    IN  adjust_scroll([e EXCEPT !.lines = ListSet(e.lines, e.cursor_y, new),
                                !.cursor_x = e.cursor_x + 1,
                                !.modified = TRUE,
                                !.message = ""])

\* delete_char() as it would be if modified were set after the branches, as
\* the message is
delete_char_marks(e) ==
    LET line == At(e.lines, e.cursor_y)
    IN  IF e.cursor_x < Len(line)
        THEN [e EXCEPT !.lines = ListSet(e.lines, e.cursor_y,
                           Slice(line, 0, e.cursor_x) \o SliceFrom(line, e.cursor_x + 1)),
                       !.modified = TRUE,
                       !.message = ""]
        ELSE IF e.cursor_y < Len(e.lines) - 1
        THEN [e EXCEPT !.lines = ListPop(ListSet(e.lines, e.cursor_y,
                                         line \o At(e.lines, e.cursor_y + 1)),
                                         e.cursor_y + 1),
                       !.modified = TRUE,
                       !.message = ""]
        ELSE [e EXCEPT !.modified = TRUE, !.message = ""]

delete_char(e) ==
    LET line == At(e.lines, e.cursor_y)
    IN  IF e.cursor_x < Len(line)
        THEN [e EXCEPT !.lines = ListSet(e.lines, e.cursor_y,
                           Slice(line, 0, e.cursor_x) \o SliceFrom(line, e.cursor_x + 1)),
                       !.modified = TRUE,
                       !.message = ""]
        ELSE IF e.cursor_y < Len(e.lines) - 1
        THEN [e EXCEPT !.lines = ListPop(ListSet(e.lines, e.cursor_y,
                                         line \o At(e.lines, e.cursor_y + 1)),
                                         e.cursor_y + 1),
                       !.modified = TRUE,
                       !.message = ""]
        ELSE [e EXCEPT !.message = ""]

\* backspace() as it would be if prev_line_len were read after the two lines
\* have been joined
backspace_len_after_join(e) ==
    IF e.cursor_x > 0
    THEN LET line == At(e.lines, e.cursor_y)
         IN  adjust_scroll(
               [e EXCEPT !.lines = ListSet(e.lines, e.cursor_y,
                             Slice(line, 0, e.cursor_x - 1) \o SliceFrom(line, e.cursor_x)),
                         !.cursor_x = e.cursor_x - 1,
                         !.modified = TRUE,
                         !.message = ""])
    ELSE IF e.cursor_y > 0
    THEN LET merged == At(e.lines, e.cursor_y - 1) \o At(e.lines, e.cursor_y)
         IN  adjust_scroll(
               [e EXCEPT !.lines = ListPop(ListSet(e.lines, e.cursor_y - 1, merged),
                                           e.cursor_y),
                         !.cursor_y = e.cursor_y - 1,
                         !.cursor_x = Len(merged),
                         !.modified = TRUE,
                         !.message = ""])
    ELSE adjust_scroll([e EXCEPT !.message = ""])

backspace(e) ==
    IF e.cursor_x > 0
    THEN LET line == At(e.lines, e.cursor_y)
         IN  adjust_scroll(
               [e EXCEPT !.lines = ListSet(e.lines, e.cursor_y,
                             Slice(line, 0, e.cursor_x - 1) \o SliceFrom(line, e.cursor_x)),
                         !.cursor_x = e.cursor_x - 1,
                         !.modified = TRUE,
                         !.message = ""])
    ELSE IF e.cursor_y > 0
    THEN LET prev_line_len == Len(At(e.lines, e.cursor_y - 1))
             merged == At(e.lines, e.cursor_y - 1) \o At(e.lines, e.cursor_y)
         IN  adjust_scroll(
               [e EXCEPT !.lines = ListPop(ListSet(e.lines, e.cursor_y - 1, merged),
                                           e.cursor_y),
                         !.cursor_y = e.cursor_y - 1,
                         !.cursor_x = prev_line_len,
                         !.modified = TRUE,
                         !.message = ""])
    ELSE adjust_scroll([e EXCEPT !.message = ""])

\* insert_newline() as it would be without the line that cuts the current
\* line down to what is before the cursor
insert_newline_keeps_line(e) ==
    LET line == At(e.lines, e.cursor_y)
    IN  adjust_scroll(
          [e EXCEPT !.lines = ListInsert(e.lines, e.cursor_y + 1,
                                         SliceFrom(line, e.cursor_x)),
                    !.cursor_y = e.cursor_y + 1,
                    !.cursor_x = 0,
                    !.modified = TRUE,
                    !.message = ""])

insert_newline(e) ==
    LET line == At(e.lines, e.cursor_y)
    IN  adjust_scroll(
          [e EXCEPT !.lines = ListInsert(ListSet(e.lines, e.cursor_y,
                                                 Slice(line, 0, e.cursor_x)),
                                         e.cursor_y + 1, SliceFrom(line, e.cursor_x)),
                    !.cursor_y = e.cursor_y + 1,
                    !.cursor_x = 0,
                    !.modified = TRUE,
                    !.message = ""])


\* search(query) as it would be if the current line were searched from the
\* cursor column itself
search_from_cursor(e, query) ==
    LET pos == StrFind(SliceFrom(At(e.lines, e.cursor_y), e.cursor_x), query)
        rows == {y \in 0..(Len(e.lines) - 1) :
                     y # e.cursor_y /\ StrFind(At(e.lines, y), query) # -1}
    IN  IF pos # -1
        THEN adjust_scroll([e EXCEPT !.cursor_x = e.cursor_x + pos,
                                     !.message = "Found",
                                     !.message_type = "success"])
        ELSE IF rows # {}
        THEN LET y == CHOOSE y \in rows : \A z \in rows : y <= z
             IN  adjust_scroll([e EXCEPT !.cursor_y = y,
                                         !.cursor_x = StrFind(At(e.lines, y), query),
                                         !.message = "Found",
                                         !.message_type = "success"])
        ELSE [e EXCEPT !.message = "not found", !.message_type = "error"]

\* search(query) as it would be if the pass over the rows above the cursor
\* set the message of the other two passes
search_plain_found(e, query) ==
    LET start_y == e.cursor_y
        start_x == e.cursor_x + 1
        pos     == StrFind(SliceFrom(At(e.lines, start_y), start_x), query)
        below   == {y \in (start_y + 1)..(Len(e.lines) - 1) :
                        StrFind(At(e.lines, y), query) # -1}
        above   == {y \in 0..(start_y - 1) : StrFind(At(e.lines, y), query) # -1}
        first(S) == CHOOSE y \in S : \A z \in S : y <= z
    IN  IF pos # -1
        THEN adjust_scroll([e EXCEPT !.cursor_x = start_x + pos,
                                     !.message = "Found",
                                     !.message_type = "success"])
        ELSE IF below # {}
        THEN adjust_scroll([e EXCEPT !.cursor_y = first(below),
                                     !.cursor_x = StrFind(At(e.lines, first(below)), query),
                                     !.message = "Found",
                                     !.message_type = "success"])
        ELSE IF above # {}
        THEN adjust_scroll([e EXCEPT !.cursor_y = first(above),
                                     !.cursor_x = StrFind(At(e.lines, first(above)), query),
                                     !.message = "Found",
                                     !.message_type = "success"])
        ELSE [e EXCEPT !.message = "not found", !.message_type = "error"]

\* search() as it would be if a search that fails left the cursor where the
\* scan started, one column after the cursor
search_not_found_moves(e, query) ==
    LET start_y == e.cursor_y
        start_x == e.cursor_x + 1
        pos     == StrFind(SliceFrom(At(e.lines, start_y), start_x), query)
        below   == {y \in (start_y + 1)..(Len(e.lines) - 1) :
                        StrFind(At(e.lines, y), query) # -1}
        above   == {y \in 0..(start_y - 1) : StrFind(At(e.lines, y), query) # -1}
        first(S) == CHOOSE y \in S : \A z \in S : y <= z
    IN  IF pos # -1
        THEN adjust_scroll([e EXCEPT !.cursor_x = start_x + pos,
                                     !.message = "Found",
                                     !.message_type = "success"])
        ELSE IF below # {}
        THEN adjust_scroll([e EXCEPT !.cursor_y = first(below),
                                     !.cursor_x = StrFind(At(e.lines, first(below)), query),
                                     !.message = "Found",
                                     !.message_type = "success"])
        ELSE IF above # {}
        THEN adjust_scroll([e EXCEPT !.cursor_y = first(above),
                                     !.cursor_x = StrFind(At(e.lines, first(above)), query),
                                     !.message = "Found (wrapped)",
                                     !.message_type = "success"])
        ELSE [e EXCEPT !.cursor_x = start_x,
                       !.message = "not found", !.message_type = "error"]

\* search() as it would be if the pass after the wrap went upwards from the
\* row above the cursor
search_wrap_upwards(e, query) ==
    LET start_y == e.cursor_y
        start_x == e.cursor_x + 1
        pos     == StrFind(SliceFrom(At(e.lines, start_y), start_x), query)
        below   == {y \in (start_y + 1)..(Len(e.lines) - 1) :
                        StrFind(At(e.lines, y), query) # -1}
        above   == {y \in 0..(start_y - 1) : StrFind(At(e.lines, y), query) # -1}
        first(S) == CHOOSE y \in S : \A z \in S : y <= z
        last(S)  == CHOOSE y \in S : \A z \in S : y >= z
    IN  IF pos # -1
        THEN adjust_scroll([e EXCEPT !.cursor_x = start_x + pos,
                                     !.message = "Found",
                                     !.message_type = "success"])
        ELSE IF below # {}
        THEN adjust_scroll([e EXCEPT !.cursor_y = first(below),
                                     !.cursor_x = StrFind(At(e.lines, first(below)), query),
                                     !.message = "Found",
                                     !.message_type = "success"])
        ELSE IF above # {}
        THEN adjust_scroll([e EXCEPT !.cursor_y = last(above),
                                     !.cursor_x = StrFind(At(e.lines, last(above)), query),
                                     !.message = "Found (wrapped)",
                                     !.message_type = "success"])
        ELSE [e EXCEPT !.message = "not found", !.message_type = "error"]

\* search(query), for a query that is not empty
search(e, query) ==
    LET start_y == e.cursor_y
        start_x == e.cursor_x + 1
        pos     == StrFind(SliceFrom(At(e.lines, start_y), start_x), query)
        below   == {y \in (start_y + 1)..(Len(e.lines) - 1) :
                        StrFind(At(e.lines, y), query) # -1}
        above   == {y \in 0..(start_y - 1) : StrFind(At(e.lines, y), query) # -1}
        first(S) == CHOOSE y \in S : \A z \in S : y <= z
    IN  IF pos # -1
        THEN adjust_scroll([e EXCEPT !.cursor_x = start_x + pos,
                                     !.message = "Found",
                                     !.message_type = "success"])
        ELSE IF below # {}
        THEN adjust_scroll([e EXCEPT !.cursor_y = first(below),
                                     !.cursor_x = StrFind(At(e.lines, first(below)), query),
                                     !.message = "Found",
                                     !.message_type = "success"])
        ELSE IF above # {}
        THEN adjust_scroll([e EXCEPT !.cursor_y = first(above),
                                     !.cursor_x = StrFind(At(e.lines, first(above)), query),
                                     !.message = "Found (wrapped)",
                                     !.message_type = "success"])
        ELSE [e EXCEPT !.message = "not found", !.message_type = "error"]

\* what save_file writes: the lines joined, and a final newline after a
\* last line that has content
\* the text written as it would be if the final terminator were written
\* whatever the last line is
FileText_terminated(l) == Join(l) \o (IF l # <<>> THEN <<NL>> ELSE <<>>)

FileText(l) == Join(l) \o (IF l # <<>> /\ l[Len(l)] # <<>> THEN <<NL>> ELSE <<>>)

\* save_file() as it would be if the name were used for the write and not
\* kept
save_file_unnamed(e, fname, io_ok) ==
    LET target == IF fname # None THEN fname ELSE e.filename
    IN  IF target = None THEN <<e, FALSE>>
        ELSE IF io_ok
        THEN <<[e EXCEPT !.disk = [e.disk EXCEPT ![target] = FileText(e.lines)],
                         !.modified = FALSE,
                         !.message = "Wrote",
                         !.message_type = "success"], TRUE>>
        ELSE <<[e EXCEPT !.message = "Error writing",
                         !.message_type = "error"], FALSE>>

\* save_file(fname); io_ok tells whether open() and write() raise nothing.
\* The result is <<the editor afterwards, the value returned>>.
save_file(e, fname, io_ok) ==
    LET e1 == IF fname # None THEN [e EXCEPT !.filename = fname] ELSE e
    IN  IF e1.filename = None THEN <<e1, FALSE>>
        ELSE IF io_ok
        THEN <<[e1 EXCEPT !.disk = [e1.disk EXCEPT ![e1.filename] = FileText(e1.lines)],
                          !.modified = FALSE,
                          !.message = "Wrote",
                          !.message_type = "success"], TRUE>>
        ELSE <<[e1 EXCEPT !.message = "Error writing",
                          !.message_type = "error"], FALSE>>

\* load_file(fname) as it would be with f.read().split('\n'): a line
\* terminator at the very end of the file opens one more, empty, line
load_file_split(e, fname, io_ok) ==
    IF e.disk[fname] = NoFile
    THEN [e EXCEPT !.lines = <<<<>>>>,
                   !.message = "New File", !.message_type = "info",
                   !.filename = fname, !.modified = FALSE]
    ELSE IF ~io_ok
    THEN [e EXCEPT !.message = "Error reading", !.message_type = "error",
                   !.lines = <<<<>>>>]
    ELSE LET text == e.disk[fname]
             read == SplitLines(text, <<>>) \o
                     (IF text = <<>> \/ text[Len(text)] = NL THEN <<<<>>>> ELSE <<>>)
         IN  [e EXCEPT !.lines = read,
                       !.message = "Read", !.message_type = "success",
                       !.filename = fname, !.modified = FALSE]

\* load_file(fname) as it would be if a path that does not exist were
\* reported as a failure to read
load_file_missing_fails(e, fname, io_ok) ==
    IF ~io_ok \/ e.disk[fname] = NoFile
    THEN [e EXCEPT !.message = "Error reading", !.message_type = "error",
                   !.lines = <<<<>>>>]
    ELSE LET read == SplitLines(e.disk[fname], <<>>)
         IN  [e EXCEPT !.lines = IF read = <<>> THEN <<<<>>>> ELSE read,
                       !.message = "Read", !.message_type = "success",
                       !.filename = fname, !.modified = FALSE]

\* load_file(fname); io_ok tells whether open() and read() raise nothing.
\* os.path.exists() raises nothing, and a path that does not exist is not
\* opened.
load_file(e, fname, io_ok) ==
    IF e.disk[fname] = NoFile
    THEN [e EXCEPT !.lines = <<<<>>>>,
                   !.message = "New File", !.message_type = "info",
                   !.filename = fname, !.modified = FALSE]
    ELSE IF ~io_ok
    THEN [e EXCEPT !.message = "Error reading", !.message_type = "error",
                   !.lines = <<<<>>>>]
    ELSE LET read == SplitLines(e.disk[fname], <<>>)
         IN  [e EXCEPT !.lines = IF read = <<>> THEN <<<<>>>> ELSE read,
                       !.message = "Read", !.message_type = "success",
                       !.filename = fname, !.modified = FALSE]

\* __init__(stdscr, fname)
init(fname, rows, cols, files, io_ok) ==
    LET e == [lines |-> <<>>, cursor_y |-> 0, cursor_x |-> 0, offset_y |-> 0,
              offset_x |-> 0, modified |-> FALSE, message |-> "",
              message_type |-> "info", filename |-> fname,
              max_y |-> rows, max_x |-> cols, disk |-> files]
    IN  IF fname # None THEN load_file(e, fname, io_ok)
        ELSE [e EXCEPT !.lines = <<<<>>>>]

\* prompt_save_filename(): input_str is what getstr() returned
prompt_save_filename(e, input_str) ==
    IF Strip(input_str) # <<>> THEN Strip(input_str) ELSE e.filename

\* prompt_search(): input_str is what getstr() returned
prompt_search(input_str) ==
    IF Strip(input_str) # <<>> THEN Strip(input_str) ELSE None

\* draw(): the position handed to stdscr.move, NoMove when move is not called
draw(e) ==
    LET screen_y == e.cursor_y - e.offset_y + 1
        screen_x == e.cursor_x - e.offset_x
        height   == get_dimensions(e)[1]
        width    == get_dimensions(e)[2]
    IN  IF 0 <= screen_y /\ screen_y < height + 1 /\ 0 <= screen_x /\ screen_x < width
        THEN <<screen_y, screen_x>>
        ELSE NoMove


(***************************************************************************)
(* Startup: main() builds the editor and run() draws it and waits for the  *)
(* first key.                                                              *)
(***************************************************************************)
Init ==
    \E fname \in {None} \cup Names,
       size \in Sizes,
       files \in [Names -> {NoFile} \cup SeqsUpTo(FileChars, MaxFile)],
       io_ok \in BOOLEAN :
        LET e == init(fname, size[1], size[2], files, io_ok)
        IN  /\ lines = e.lines
            /\ cursor_y = e.cursor_y
            /\ cursor_x = e.cursor_x
            /\ offset_y = e.offset_y
            /\ offset_x = e.offset_x
            /\ modified = e.modified
            /\ message = e.message
            /\ message_type = e.message_type
            /\ filename = e.filename
            /\ max_y = e.max_y
            /\ max_x = e.max_x
            /\ disk = e.disk
            /\ cut_buffer = <<>>
            /\ screen = draw(e)
            /\ mode = "Editing"
            /\ exit_via = "running"

\* the characters the editor holds: those of the buffer and of the cut buffer
Held == TotalChars(lines) + Len(cut_buffer)

(***************************************************************************)
(* run(): one key in the Editing state, its handler, and the draw() of the *)
(* next iteration.                                                         *)
(***************************************************************************)
\* the handler left the editor as e and the cut buffer as cb; the loop draws
Loop(e, cb) ==
    /\ Becomes(e)
    /\ cut_buffer' = cb
    /\ screen' = draw(e)
    /\ mode' = "Editing"
    /\ exit_via' = exit_via

\* the loop ends: break
Break(e, via) ==
    /\ Becomes(e)
    /\ mode' = "Done"
    /\ exit_via' = via
    /\ UNCHANGED <<cut_buffer, screen>>

\* Ctrl+X: confirm_exit() up to its first getch()
KeyExit ==
    /\ mode = "Editing"
    /\ IF ~modified
       THEN Break(Self, "unmodified")
       ELSE /\ mode' = "ConfirmingExit"
            /\ UNCHANGED <<lines, cursor_y, cursor_x, offset_y, offset_x, modified,
                           message, message_type, filename, cut_buffer, max_y,
                           max_x, screen, disk, exit_via>>

\* confirm_exit(), key y or Y, as it would be if it returned True whatever
\* save_file returned
confirm_yes_regardless(e, input_str, io_ok) ==
    LET fname == prompt_save_filename(e, input_str)
    IN  IF fname # None THEN <<save_file(e, fname, io_ok)[1], TRUE>> ELSE <<e, TRUE>>

\* confirm_exit(), key y or Y: the value it returns after the prompt and the save
confirm_yes(e, input_str, io_ok) ==
    LET fname == prompt_save_filename(e, input_str)
    IN  IF fname # None THEN save_file(e, fname, io_ok) ELSE <<e, FALSE>>

ConfirmYes ==
    /\ mode = "ConfirmingExit"
    /\ \E input_str \in NameInput, io_ok \in BOOLEAN :
        /\ io_ok => Len(FileText(lines)) <= MaxFile
        /\ LET r == confirm_yes(Self, input_str, io_ok)
           IN  IF r[2] THEN Break(r[1], "saved") ELSE Loop(r[1], cut_buffer)

\* confirm_exit(), key n or N, as it would be if it wrote the buffer to the
\* file it has a name for before it returned
ConfirmNoWrites ==
    /\ mode = "ConfirmingExit"
    /\ filename # None => Len(FileText(lines)) <= MaxFile
    /\ Break(IF filename # None
             THEN [Self EXCEPT !.disk = [disk EXCEPT ![filename] = FileText(lines)]]
             ELSE Self, "no")

\* confirm_exit(), key n or N
ConfirmNo ==
    /\ mode = "ConfirmingExit"
    /\ Break(Self, "no")

\* confirm_exit(), key c, C or ESC
ConfirmCancel ==
    /\ mode = "ConfirmingExit"
    /\ Loop(Self, cut_buffer)

\* confirm_exit(), any other key, as it would be if a Backspace typed at the
\* question were handed to the editor
ConfirmOtherEdits ==
    /\ mode = "ConfirmingExit"
    /\ Loop(backspace(Self), cut_buffer)

\* confirm_exit(), any other key: the while loop reads the next one
ConfirmOther ==
    /\ mode = "ConfirmingExit"
    /\ UNCHANGED vars

\* Ctrl+O
KeySave ==
    /\ mode = "Editing"
    /\ \E input_str \in NameInput, io_ok \in BOOLEAN :
        /\ io_ok => Len(FileText(lines)) <= MaxFile
        /\ LET fname == prompt_save_filename(Self, input_str)
           IN  IF fname # None
               THEN Loop(save_file(Self, fname, io_ok)[1], cut_buffer)
               ELSE Loop(Self, cut_buffer)

\* Ctrl+W, with input_str typed at the prompt
FindWith(input_str) ==
    /\ mode = "Editing"
    /\ LET query == prompt_search(input_str)
       IN  IF query # None
           THEN Loop(search(Self, query), cut_buffer)
           ELSE Loop(Self, cut_buffer)

KeyFind == \E input_str \in QueryInput : FindWith(input_str)

\* Ctrl+K as it would be without the two lines that put an empty line back
cut_line_no_refill(e) ==
    LET left == ListPop(e.lines, e.cursor_y)
    IN  [e EXCEPT !.lines = left,
                  !.cursor_y = IF e.cursor_y >= Len(left) THEN Len(left) - 1
                               ELSE e.cursor_y,
                  !.cursor_x = 0,
                  !.modified = TRUE,
                  !.message = "Cut line",
                  !.message_type = "info"]

\* Ctrl+K as it would be without self.cursor_x = 0
cut_line_keeps_column(e) ==
    LET popped == ListPop(e.lines, e.cursor_y)
        left   == IF popped = <<>> THEN <<<<>>>> ELSE popped
    IN  [e EXCEPT !.lines = left,
                  !.cursor_y = IF e.cursor_y >= Len(left) THEN Len(left) - 1
                               ELSE e.cursor_y,
                  !.modified = TRUE,
                  !.message = "Cut line",
                  !.message_type = "info"]

\* Ctrl+K: the editor after the cut
cut_line(e) ==
    LET popped == ListPop(e.lines, e.cursor_y)
        left   == IF popped = <<>> THEN <<<<>>>> ELSE popped
    IN  [e EXCEPT !.lines = left,
                  !.cursor_y = IF e.cursor_y >= Len(left) THEN Len(left) - 1
                               ELSE e.cursor_y,
                  !.cursor_x = 0,
                  !.modified = TRUE,
                  !.message = "Cut line",
                  !.message_type = "info"]

KeyCut ==
    /\ mode = "Editing"
    /\ Loop(cut_line(Self), At(lines, cursor_y))

\* Ctrl+U as it would be without self.modified = True
paste_line_unmarked(e, cb) ==
    IF cb # <<>>
    THEN [e EXCEPT !.lines = ListInsert(e.lines, e.cursor_y, cb),
                   !.message = "Pasted line",
                   !.message_type = "info"]
    ELSE e

\* Ctrl+U as it would be if the line were inserted below the cursor row
paste_line_below(e, cb) ==
    IF cb # <<>>
    THEN [e EXCEPT !.lines = ListInsert(e.lines, e.cursor_y + 1, cb),
                   !.modified = TRUE,
                   !.message = "Pasted line",
                   !.message_type = "info"]
    ELSE e

\* Ctrl+U: the editor after the paste of cb
\* Ctrl+U as it would be if the line were put after the last line
paste_line_appends(e, cb) ==
    IF cb # <<>>
    THEN [e EXCEPT !.lines = e.lines \o <<cb>>,
                   !.modified = TRUE,
                   !.message = "Pasted line",
                   !.message_type = "info"]
    ELSE e

paste_line(e, cb) ==
    IF cb # <<>>
    THEN [e EXCEPT !.lines = ListInsert(e.lines, e.cursor_y, cb),
                   !.modified = TRUE,
                   !.message = "Pasted line",
                   !.message_type = "info"]
    ELSE e

\* Ctrl+U as it would be if the paste emptied the cut buffer
KeyPasteOnce ==
    /\ mode = "Editing"
    /\ cut_buffer # <<>> => /\ Len(lines) < MaxLines
                            /\ Held + Len(cut_buffer) <= MaxChars
    /\ Loop(paste_line(Self, cut_buffer), <<>>)

KeyPaste ==
    /\ mode = "Editing"
    /\ cut_buffer # <<>> => /\ Len(lines) < MaxLines
                            /\ Held + Len(cut_buffer) <= MaxChars
    /\ Loop(paste_line(Self, cut_buffer), cut_buffer)

\* Ctrl+G: show_help() up to its getch()
KeyHelp ==
    /\ mode = "Editing"
    /\ mode' = "ShowingHelp"
    /\ UNCHANGED <<lines, cursor_y, cursor_x, offset_y, offset_x, modified,
                   message, message_type, filename, cut_buffer, max_y,
                   max_x, screen, disk, exit_via>>

\* show_help() as it would be if the key that ends it cleared the message
HelpKeyClears ==
    /\ mode = "ShowingHelp"
    /\ Loop([Self EXCEPT !.message = ""], cut_buffer)

\* show_help(): any key returns to the loop
HelpKey ==
    /\ mode = "ShowingHelp"
    /\ Loop(Self, cut_buffer)

\* Ctrl+A and KEY_HOME
KeyHome ==
    /\ mode = "Editing"
    /\ Loop(adjust_scroll([Self EXCEPT !.cursor_x = 0]), cut_buffer)

\* Ctrl+E and KEY_END
KeyEnd ==
    /\ mode = "Editing"
    /\ Loop(adjust_scroll([Self EXCEPT !.cursor_x = Len(At(lines, cursor_y))]),
            cut_buffer)

KeyUp ==
    /\ mode = "Editing"
    /\ Loop(move_cursor(Self, -1, 0), cut_buffer)

KeyDown ==
    /\ mode = "Editing"
    /\ Loop(move_cursor(Self, 1, 0), cut_buffer)

\* KEY_LEFT: the editor afterwards
key_left(e) ==
    IF e.cursor_x > 0 THEN move_cursor(e, 0, -1)
    ELSE IF e.cursor_y > 0
    THEN adjust_scroll([e EXCEPT !.cursor_y = e.cursor_y - 1,
                                 !.cursor_x = Len(At(e.lines, e.cursor_y - 1))])
    ELSE e

KeyLeft ==
    /\ mode = "Editing"
    /\ Loop(key_left(Self), cut_buffer)

\* KEY_RIGHT: the editor afterwards
key_right(e) ==
    IF e.cursor_x < Len(At(e.lines, e.cursor_y)) THEN move_cursor(e, 0, 1)
    ELSE IF e.cursor_y < Len(e.lines) - 1
    THEN adjust_scroll([e EXCEPT !.cursor_y = e.cursor_y + 1, !.cursor_x = 0])
    ELSE e

KeyRight ==
    /\ mode = "Editing"
    /\ Loop(key_right(Self), cut_buffer)

\* KEY_PPAGE
KeyPageUp ==
    /\ mode = "Editing"
    /\ Loop(move_cursor(Self, -get_dimensions(Self)[1], 0), cut_buffer)

\* KEY_NPAGE
KeyPageDown ==
    /\ mode = "Editing"
    /\ Loop(move_cursor(Self, get_dimensions(Self)[1], 0), cut_buffer)

\* KEY_ENTER, 10, 13
KeyEnter ==
    /\ mode = "Editing"
    /\ Len(lines) < MaxLines
    /\ Loop(insert_newline(Self), cut_buffer)

\* KEY_BACKSPACE, 127, 8
KeyBackspace ==
    /\ mode = "Editing"
    /\ Loop(backspace(Self), cut_buffer)

\* KEY_DC
KeyDelete ==
    /\ mode = "Editing"
    /\ Loop(delete_char(Self), cut_buffer)

\* key 9
KeyTab ==
    /\ mode = "Editing"
    /\ Held + Len(TabText) <= MaxChars
    /\ Loop(insert_char(Self, TabText), cut_buffer)

\* keys 32..126
KeyChar ==
    /\ mode = "Editing"
    /\ Held < MaxTyped
    /\ \E ch \in Chars : Loop(insert_char(Self, <<ch>>), cut_buffer)

\* KEY_RESIZE: the terminal has a new size; run() has no branch for the key
KeyResize ==
    /\ mode = "Editing"
    /\ \E size \in Sizes :
        /\ size # <<max_y, max_x>>
        /\ Loop([Self EXCEPT !.max_y = size[1], !.max_x = size[2]], cut_buffer)

Next ==
    \/ KeyExit \/ ConfirmYes \/ ConfirmNo \/ ConfirmCancel \/ ConfirmOther
    \/ KeySave \/ KeyFind \/ KeyCut \/ KeyPaste \/ KeyHelp \/ HelpKey
    \/ KeyHome \/ KeyEnd \/ KeyUp \/ KeyDown \/ KeyLeft \/ KeyRight
    \/ KeyPageUp \/ KeyPageDown \/ KeyEnter \/ KeyBackspace \/ KeyDelete
    \/ KeyTab \/ KeyChar \/ KeyResize

Spec == Init /\ [][Next]_vars

(***************************************************************************)
(* Searching: the editor holds any text of the search bounds, the cursor   *)
(* has been walked to any place of it from the top, and Ctrl+W is pressed, *)
(* again and again.                                                        *)
(***************************************************************************)
SearchAlphabet == {"a", SP}

SearchBuffers ==
    {l \in UNION {[1..n -> SeqsUpTo(SearchAlphabet, SearchLen)] : n \in 1..SearchLines} :
        TotalChars(l) <= SearchChars}

InitSearch ==
    \E l \in SearchBuffers :
      \E y \in 0..(Len(l) - 1) :
        \E x \in 0..Len(At(l, y)) :
          LET e == adjust_scroll(
                     [lines |-> l, cursor_y |-> y, cursor_x |-> x, offset_y |-> 0,
                      offset_x |-> 0, modified |-> TRUE, message |-> "",
                      message_type |-> "info", filename |-> None,
                      max_y |-> ReservedRows + MaxSize, max_x |-> MaxSize,
                      disk |-> [n \in Names |-> NoFile]])
          IN  /\ lines = e.lines
              /\ cursor_y = e.cursor_y
              /\ cursor_x = e.cursor_x
              /\ offset_y = e.offset_y
              /\ offset_x = e.offset_x
              /\ modified = e.modified
              /\ message = e.message
              /\ message_type = e.message_type
              /\ filename = e.filename
              /\ max_y = e.max_y
              /\ max_x = e.max_x
              /\ disk = e.disk
              /\ cut_buffer = <<>>
              /\ screen = draw(e)
              /\ mode = "Editing"
              /\ exit_via = "running"

NextSearch == KeyFind

SpecSearch == InitSearch /\ [][NextSearch]_vars


(***************************************************************************)
(* Editing a text of several lines: the editor holds any text of the       *)
(* search bounds with the cursor anywhere in it, and lines are split,      *)
(* merged, cut and pasted.  The handlers are those of run(); the guards    *)
(* keep the text within one line and the characters of the search bounds.  *)
(***************************************************************************)
\* KEY_ENTER, 10, 13
EditEnter ==
    /\ mode = "Editing"
    /\ Len(lines) <= SearchLines
    /\ Loop(insert_newline(Self), cut_buffer)

\* KEY_BACKSPACE, 127, 8
EditBackspace ==
    /\ mode = "Editing"
    /\ Loop(backspace(Self), cut_buffer)

\* Ctrl+K
EditCut ==
    /\ mode = "Editing"
    /\ Loop(cut_line(Self), At(lines, cursor_y))

\* Ctrl+U
EditPaste ==
    /\ mode = "Editing"
    /\ cut_buffer # <<>> => /\ Len(lines) <= SearchLines
                            /\ Held + Len(cut_buffer) <= SearchChars
    /\ Loop(paste_line(Self, cut_buffer), cut_buffer)

\* KEY_DC
EditDelete ==
    /\ mode = "Editing"
    /\ Loop(delete_char(Self), cut_buffer)

NextEdit == EditEnter \/ EditBackspace \/ EditCut \/ EditPaste \/ EditDelete

\* the text has been typed and the cursor walked to any place of it; saved
\* tells whether the text, of one line then, was written to a file before the
\* cursor was walked, and cb is the line that was cut before that
InitEdit ==
    \E l \in SearchBuffers :
     \E saved \in IF Len(l) = 1 THEN BOOLEAN ELSE {FALSE} :
      \E y \in 0..(Len(l) - 1), fname \in Names,
         cb \in IF saved THEN {<<>>, <<"a">>} ELSE {<<>>} :
        \E x \in 0..Len(At(l, y)) :
          LET e == adjust_scroll(
                     [lines |-> l, cursor_y |-> y, cursor_x |-> x, offset_y |-> 0,
                      offset_x |-> 0, modified |-> ~saved, message |-> "",
                      message_type |-> IF saved THEN "success" ELSE "info",
                      filename |-> IF saved THEN fname ELSE None,
                      max_y |-> ReservedRows + MaxSize, max_x |-> MaxSize,
                      disk |-> [n \in Names |-> IF saved /\ n = fname
                                                THEN FileText(l) ELSE NoFile]])
          IN  /\ lines = e.lines
              /\ cursor_y = e.cursor_y
              /\ cursor_x = e.cursor_x
              /\ offset_y = e.offset_y
              /\ offset_x = e.offset_x
              /\ modified = e.modified
              /\ message = e.message
              /\ message_type = e.message_type
              /\ filename = e.filename
              /\ max_y = e.max_y
              /\ max_x = e.max_x
              /\ disk = e.disk
              /\ cut_buffer = cb
              /\ screen = draw(e)
              /\ mode = "Editing"
              /\ exit_via = "running"

SpecEdit == InitEdit /\ [][NextEdit]_vars

(***************************************************************************)
(* Files: the editor holds any text of the search bounds, the text is      *)
(* saved, the editor is left, and the program is started again on the      *)
(* path it was saved to.                                                   *)
(***************************************************************************)
\* Ctrl+O
EditSave ==
    /\ mode = "Editing"
    /\ \E input_str \in NameInput, io_ok \in BOOLEAN :
        LET fname == prompt_save_filename(Self, input_str)
        IN  IF fname # None
            THEN Loop(save_file(Self, fname, io_ok)[1], cut_buffer)
            ELSE Loop(Self, cut_buffer)

\* main() once more, in a new process, on the path of the process that ended
Relaunch ==
    /\ mode = "Done"
    /\ \E io_ok \in BOOLEAN :
        LET e == init(filename, max_y, max_x, disk, io_ok)
        IN  /\ Becomes(e)
            /\ cut_buffer' = <<>>
            /\ screen' = draw(e)
            /\ mode' = "Editing"
            /\ exit_via' = "running"

NextFile == EditSave \/ KeyExit \/ ConfirmNo \/ Relaunch

SpecFile == InitSearch /\ [][NextFile]_vars


(***************************************************************************)
(* Moving: the editor holds any text of the search bounds with the cursor  *)
(* anywhere in it, the cursor is moved with the motion keys, and the       *)
(* terminal is resized.                                                    *)
(***************************************************************************)
NextMove ==
    \/ KeyUp \/ KeyDown \/ KeyLeft \/ KeyRight \/ KeyHome \/ KeyEnd
    \/ KeyPageUp \/ KeyPageDown \/ KeyResize

SpecMove == InitSearch /\ [][NextMove]_vars


(***************************************************************************)
(* Typing: the editor holds any text of the search bounds with the cursor  *)
(* anywhere in it, printable characters are typed, and lines are cut and   *)
(* pasted, which can leave the cursor past the end of its line.            *)
(***************************************************************************)
\* key ch of 32..126
TypeChar(ch) ==
    /\ mode = "Editing"
    /\ Held <= SearchChars
    /\ Loop(insert_char(Self, <<ch>>), cut_buffer)

EditChar == \E ch \in SearchAlphabet : TypeChar(ch)

NextType == EditChar \/ EditCut \/ EditPaste

SpecType == InitEdit /\ [][NextType]_vars

(***************************************************************************)
(* Finding in a text that is being edited: the editor holds any text of    *)
(* the search bounds, saved or not, queries are searched, and lines are    *)
(* cut and pasted.                                                         *)
(***************************************************************************)
NextFind == KeyFind \/ EditCut \/ EditPaste

SpecFind == InitEdit /\ [][NextFind]_vars

(***************************************************************************)
(* Saving a text that is being edited: the editor holds any text of the    *)
(* search bounds, lines are cut and pasted, and the buffer is saved, with  *)
(* writes that succeed and writes that fail.                               *)
(***************************************************************************)
NextSave == EditSave \/ EditCut \/ EditPaste

SpecSave == InitEdit /\ [][NextSave]_vars

(***************************************************************************)
(* atomo_commentato.py, the second copy of the program: the two handlers   *)
(* whose effect on the text, the cursor, the offsets or modified is not    *)
(* that of atomo.py.  e is the editor before, the result the editor after; *)
(* this copy leaves the message alone.                                     *)
(***************************************************************************)
\* insert_char(char): the column advances by len(char)
insert_char_commentato(e, char) ==
    LET line == At(e.lines, e.cursor_y)
        new  == Slice(line, 0, e.cursor_x) \o char \o SliceFrom(line, e.cursor_x)
    IN  adjust_scroll([e EXCEPT !.lines = ListSet(e.lines, e.cursor_y, new),
                                !.cursor_x = e.cursor_x + Len(char),
                                !.modified = TRUE])

\* backspace(): adjust_scroll() is called in the two branches only
backspace_commentato(e) ==
    IF e.cursor_x > 0
    THEN LET line == At(e.lines, e.cursor_y)
         IN  adjust_scroll(
               [e EXCEPT !.lines = ListSet(e.lines, e.cursor_y,
                             Slice(line, 0, e.cursor_x - 1) \o SliceFrom(line, e.cursor_x)),
                         !.cursor_x = e.cursor_x - 1,
                         !.modified = TRUE])
    ELSE IF e.cursor_y > 0
    THEN LET current_line == At(e.lines, e.cursor_y)
             popped == ListPop(e.lines, e.cursor_y)
             y      == e.cursor_y - 1
         IN  adjust_scroll(
               [e EXCEPT !.lines = ListSet(popped, y, At(popped, y) \o current_line),
                         !.cursor_y = y,
                         !.cursor_x = Len(At(popped, y)),
                         !.modified = TRUE])
    ELSE e

(***************************************************************************)
(* Properties.                                                             *)
(***************************************************************************)
height == get_dimensions(Self)[1]
width  == get_dimensions(Self)[2]

\* C1: in every reachable state the cursor row is a row of the buffer and
\* the cursor column is at most the length of that row.
C1_CursorInBounds ==
    /\ 0 <= cursor_y /\ cursor_y <= Len(lines) - 1
    /\ 0 <= cursor_x /\ cursor_x <= Len(At(lines, cursor_y))

\* C2: the buffer has at least one line at startup and after every key, and
\* a cut of the only line leaves exactly one empty line.
C2_NeverEmpty ==
    /\ Len(lines) >= 1
    /\ [][/\ Len(lines') >= 1
          /\ (KeyCut /\ Len(lines) = 1 => lines' = <<<<>>>>)]_vars

\* the only line, with text in it, has been cut
C2_Witness ==
    /\ lines = <<<<>>>>
    /\ message = "Cut line"
    /\ cut_buffer # <<>>

\* the keys that move the cursor or change the text
MotionOrMutation ==
    \/ KeyCut \/ KeyPaste \/ KeyHome \/ KeyEnd \/ KeyUp \/ KeyDown \/ KeyLeft
    \/ KeyRight \/ KeyPageUp \/ KeyPageDown \/ KeyEnter \/ KeyBackspace
    \/ KeyDelete \/ KeyTab \/ KeyChar

CursorInWindow ==
    /\ offset_y <= cursor_y /\ cursor_y < offset_y + height
    /\ offset_x <= cursor_x /\ cursor_x < offset_x + width

\* C3: after every key that moves the cursor or changes the text, when the
\* loop is back at draw(), the cursor is inside the window on both axes.
C3_Resynced == [][MotionOrMutation => CursorInWindow']_vars

\* C4: a key that changes the lines sets modified, and modified is cleared
\* only by a save that succeeded, which leaves the lines as they are.
C4_ModifiedTracksLines ==
    [][/\ (lines' # lines => modified')
       /\ (modified /\ ~modified' =>
              /\ KeySave \/ ConfirmYes
              /\ message' = "Wrote"
              /\ lines' = lines
              /\ disk'[filename'] = FileText(lines))]_vars

\* a buffer with text in it has been saved and not been touched since
C4_Witness ==
    /\ ~modified
    /\ filename # None
    /\ disk[filename] = FileText(lines)
    /\ lines # <<<<>>>>
    /\ message = "Wrote"

C6_FailedSaveOnExit ==
    [][ConfirmYes /\ mode' # "Done" =>
          /\ mode' = "Editing"
          /\ message' # ""
          /\ message_type' = "error"]_vars

\* C7: a save that fails on writing changes the status message and nothing
\* else of the editor.
C7_FailedSaveFrame ==
    [][(KeySave \/ ConfirmYes) /\ message' = "Error writing" =>
          /\ message_type' = "error"
          /\ UNCHANGED <<lines, cursor_y, cursor_x, offset_y, offset_x,
                         cut_buffer, modified, filename>>]_vars

\* C8: draw() moves the terminal cursor only into the text body, rows
\* 1..height and columns 0..width-1.
C8_CursorInBody ==
    screen # NoMove =>
        /\ 1 <= screen[1] /\ screen[1] <= height
        /\ 0 <= screen[2] /\ screen[2] <= width - 1

\* q occurs in the buffer l at row y, column x
Occurs(l, q, y, x) ==
    /\ y \in 0..(Len(l) - 1)
    /\ x \in 0..Len(At(l, y))
    /\ MatchAt(At(l, y), q, x)

Occurrences(l, q) ==
    UNION {{<<y, x>> : x \in {c \in 0..Len(At(l, y)) : Occurs(l, q, y, c)}} :
              y \in 0..(Len(l) - 1)}

\* the first position of S in (row, column) order
Earliest(S) ==
    CHOOSE p \in S : \A r \in S : p[1] < r[1] \/ (p[1] = r[1] /\ p[2] <= r[2])

\* the three passes of a Find for q from the cursor
SameRowAfter(q) == {p \in Occurrences(lines, q) : p[1] = cursor_y /\ p[2] >= cursor_x + 1}
RowsBelow(q)    == {p \in Occurrences(lines, q) : p[1] > cursor_y}
RowsAbove(q)    == {p \in Occurrences(lines, q) : p[1] < cursor_y}

C10_WholeBuffer ==
    [][\A input_str \in QueryInput :
          LET q == prompt_search(input_str)
          IN  /\ q # None
              /\ FindWith(input_str)
              /\ Occurrences(lines, q) \ {<<cursor_y, cursor_x>>} # {}
              => /\ message' # "not found"
                 /\ Occurs(lines, q, cursor_y', cursor_x')]_vars

\* C11: from a cursor inside the text, Enter and then Backspace give back the
\* lines and the cursor position there were before the Enter.
C11_EnterBackspace ==
    [][EditEnter /\ C1_CursorInBounds =>
          LET e == backspace(Self')
          IN  /\ e.lines = lines
              /\ e.cursor_y = cursor_y
              /\ e.cursor_x = cursor_x]_vars

\* an Enter has split a line between two of its characters, below another line
C11_Witness ==
    /\ mode = "Editing"
    /\ message = ""
    /\ cursor_y >= 2
    /\ cursor_x = 0
    /\ At(lines, cursor_y - 1) # <<>>
    /\ At(lines, cursor_y) # <<>>
    /\ Len(lines) = SearchLines + 1

\* the lines of l without the one at row r (0-based)
WithoutRow(l, r) == [i \in 1..(Len(l) - 1) |-> IF i <= r THEN l[i] ELSE l[i + 1]]

\* C12: a cut at row r removes line r and nothing else, keeps the other lines
\* in order, puts the removed text in the cut buffer, leaves the cursor at
\* row min(r, lines left - 1) and column 0, sets modified and the message
\* "Cut line"; the only line of a buffer is replaced by one empty line.
C12_CutLine ==
    [][EditCut =>
          /\ lines' = IF Len(lines) = 1 THEN <<<<>>>> ELSE WithoutRow(lines, cursor_y)
          /\ cut_buffer' = At(lines, cursor_y)
          /\ cursor_y' = Min(cursor_y, Len(lines') - 1)
          /\ cursor_x' = 0
          /\ modified'
          /\ message' = "Cut line"]_vars

\* a line with text has been cut from between two lines that are left
C12_Witness ==
    /\ message = "Cut line"
    /\ cut_buffer # <<>>
    /\ Len(lines) >= 2
    /\ cursor_y >= 1
    /\ cursor_y < Len(lines)
    /\ At(lines, cursor_y - 1) # At(lines, cursor_y)

\* C13: a paste of a cut buffer that is not empty puts its text in as a new
\* line at the cursor row r: the lines above r stay, the lines from r on move
\* down by one, there is one line more, the cursor row stays r and modified
\* is set; a paste of an empty cut buffer changes neither lines nor modified.
C13_PasteLine ==
    [][EditPaste =>
          IF cut_buffer # <<>>
          THEN /\ Len(lines') = Len(lines) + 1
               /\ \A i \in 1..Len(lines') :
                     lines'[i] = IF i <= cursor_y THEN lines[i]
                                 ELSE IF i = cursor_y + 1 THEN cut_buffer
                                 ELSE lines[i - 1]
               /\ cursor_y' = cursor_y
               /\ modified'
          ELSE /\ lines' = lines
               /\ modified' = modified]_vars

\* a line has been pasted between two lines, both different from it
C13_Witness ==
    /\ message = "Pasted line"
    /\ cursor_y >= 1
    /\ cursor_y + 1 < Len(lines)
    /\ At(lines, cursor_y) = cut_buffer
    /\ At(lines, cursor_y - 1) # cut_buffer
    /\ At(lines, cursor_y + 1) # cut_buffer

\* C14: the cut buffer is empty at startup, only a cut changes it, and a paste
\* leaves in it the text it has just inserted.
C14_CutBufferFrame ==
    /\ cut_buffer = <<>>
    /\ [][/\ (cut_buffer' # cut_buffer => KeyCut)
          /\ (KeyPaste => cut_buffer' = cut_buffer)
          /\ (KeyPaste /\ cut_buffer # <<>> => At(lines', cursor_y') = cut_buffer')]_vars

\* a line has been pasted and the cut buffer still holds its text
C14_Witness ==
    /\ message = "Pasted line"
    /\ cut_buffer # <<>>
    /\ At(lines, cursor_y) = cut_buffer

\* the keys that move the cursor or change the text and set no message
MotionOrEdit ==
    \/ KeyHome \/ KeyEnd \/ KeyUp \/ KeyDown \/ KeyLeft \/ KeyRight
    \/ KeyPageUp \/ KeyPageDown \/ KeyEnter \/ KeyBackspace \/ KeyDelete
    \/ KeyTab \/ KeyChar

\* C15: after a key that moves the cursor or changes the text, and sets no
\* message of its own, there is no status message.
C15_MessageCleared == [][MotionOrEdit => message' = ""]_vars

\* C16: a Delete at the end of the last line, a paste of an empty cut buffer
\* and a Find with an empty query each leave the whole state as it was,
\* status message included.
C16_NoOps ==
    [][/\ (/\ KeyDelete
           /\ cursor_y = Len(lines) - 1
           /\ cursor_x >= Len(At(lines, cursor_y))
           => UNCHANGED vars)
       /\ (KeyPaste /\ cut_buffer = <<>> => UNCHANGED vars)
       /\ (\A input_str \in QueryInput :
              prompt_search(input_str) = None /\ FindWith(input_str)
              => UNCHANGED vars)]_vars

\* C17: the answer cancel leads back to Editing with lines, cursor, cut
\* buffer, filename and modified as they were; the answer no ends the loop
\* and writes nothing.
C17_CancelAndNo ==
    [][/\ (ConfirmCancel =>
              /\ mode' = "Editing"
              /\ UNCHANGED <<lines, cursor_y, cursor_x, cut_buffer, filename, modified>>)
       /\ (ConfirmNo =>
              /\ mode' = "Done"
              /\ disk' = disk
              /\ UNCHANGED <<lines, modified, filename>>)]_vars

\* the loop has ended by the answer no, the file not holding the buffer
C17_Witness ==
    /\ mode = "Done"
    /\ exit_via = "no"
    /\ modified
    /\ filename # None
    /\ disk[filename] # FileText(lines)

\* C18: a buffer that does not end in an empty line, or is the one empty
\* line, is saved, and the program started again on the path reads back the
\* same lines in the same order.
C18_RoundTrip ==
    [][/\ Relaunch
       /\ ~modified
       /\ message = "Wrote"
       /\ message' = "Read"
       /\ (lines = <<<<>>>> \/ lines[Len(lines)] # <<>>)
       => lines' = lines]_vars

\* a text of several lines that begins with an empty line has been read back
C18_Witness ==
    /\ message = "Read"
    /\ mode = "Editing"
    /\ Len(lines) = SearchLines
    /\ lines[1] = <<>>
    /\ lines[Len(lines)] # <<>>
    /\ disk[filename] = FileText(lines)

\* C19: Tab puts four spaces in at the cursor column and moves the cursor
\* four columns on, to just after them; modified is set.
C19_Tab ==
    [][KeyTab =>
          LET line == At(lines, cursor_y)
          IN  /\ lines' = ListSet(lines, cursor_y,
                              Slice(line, 0, cursor_x) \o <<SP, SP, SP, SP>>
                                  \o SliceFrom(line, cursor_x))
              /\ cursor_y' = cursor_y
              /\ cursor_x' = cursor_x + 4
              /\ modified']_vars

\* the characters of s before column c, and those from column c on
Before(s, c) == [k \in 1..Min(c, Len(s)) |-> s[k]]
FromOn(s, c) == [k \in 1..(Len(s) - Min(c, Len(s))) |-> s[k + Min(c, Len(s))]]

\* C20: Enter at (r, c) leaves in line r what was before column c, puts what
\* was from column c on in a new line r+1, leaves every other line as it was
\* and in order, makes the buffer one line longer, moves the cursor to
\* (r+1, 0) and sets modified.
C20_Enter ==
    [][EditEnter =>
          LET line == At(lines, cursor_y)
          IN  /\ Len(lines') = Len(lines) + 1
              /\ \A i \in 1..Len(lines') :
                    lines'[i] = IF i <= cursor_y THEN lines[i]
                                ELSE IF i = cursor_y + 1 THEN Before(line, cursor_x)
                                ELSE IF i = cursor_y + 2 THEN FromOn(line, cursor_x)
                                ELSE lines[i - 1]
              /\ cursor_y' = cursor_y + 1
              /\ cursor_x' = 0
              /\ modified']_vars

\* an Enter has split a line that has a line above it and a line below it
C20_Witness ==
    /\ mode = "Editing"
    /\ message = ""
    /\ modified
    /\ cursor_x = 0
    /\ cursor_y >= 2
    /\ cursor_y + 1 < Len(lines)
    /\ At(lines, cursor_y - 1) # <<>>
    /\ At(lines, cursor_y) # <<>>

\* the line s without its character at index k (0-based)
WithoutChar(s, k) == [i \in 1..(Len(s) - 1) |-> IF i <= k THEN s[i] ELSE s[i + 1]]

\* C21: Backspace at (r, c) with c > 0 removes the character at index c-1 of
\* line r and leaves the cursor at (r, c-1); at column 0 of a row r > 0 it
\* appends line r to line r-1, removes line r and leaves the cursor at
\* (r-1, the length line r-1 had); at (0, 0) lines, cursor and modified stay.
\* Modified is set in the first two cases.
C21_Backspace ==
    [][KeyBackspace =>
          LET line == At(lines, cursor_y)
          IN  IF cursor_x > 0
              THEN /\ lines' = ListSet(lines, cursor_y, WithoutChar(line, cursor_x - 1))
                   /\ cursor_y' = cursor_y
                   /\ cursor_x' = cursor_x - 1
                   /\ modified'
              ELSE IF cursor_y > 0
              THEN /\ Len(lines') = Len(lines) - 1
                   /\ \A i \in 1..Len(lines') :
                         lines'[i] = IF i < cursor_y THEN lines[i]
                                     ELSE IF i = cursor_y
                                     THEN lines[cursor_y] \o lines[cursor_y + 1]
                                     ELSE lines[i + 1]
                   /\ cursor_y' = cursor_y - 1
                   /\ cursor_x' = Len(lines[cursor_y])
                   /\ modified'
              ELSE UNCHANGED <<lines, cursor_y, cursor_x, modified>>]_vars

\* C22: Delete at (r, c) with c inside line r removes the character at index
\* c; at or past the end of a line r that is not the last it appends line
\* r+1 to line r and removes line r+1; at the end of the last line it changes
\* no line and leaves modified as it was.  Cursor and offsets stay as they
\* were in all three cases.
C22_Delete ==
    [][EditDelete =>
          LET line == At(lines, cursor_y)
          IN  /\ IF cursor_x < Len(line)
                 THEN lines' = ListSet(lines, cursor_y, WithoutChar(line, cursor_x))
                 ELSE IF cursor_y < Len(lines) - 1
                 THEN /\ Len(lines') = Len(lines) - 1
                      /\ \A i \in 1..Len(lines') :
                            lines'[i] = IF i < cursor_y + 1 THEN lines[i]
                                        ELSE IF i = cursor_y + 1
                                        THEN lines[cursor_y + 1] \o lines[cursor_y + 2]
                                        ELSE lines[i + 1]
                 ELSE /\ lines' = lines
                      /\ modified' = modified
              /\ UNCHANGED <<cursor_y, cursor_x, offset_y, offset_x>>]_vars

\* two lines have been joined into one longer than any line typed at the
\* start, the cursor where they meet, and another line is left
C22_Witness ==
    /\ mode = "Editing"
    /\ message = ""
    /\ modified
    /\ Len(lines) >= 2
    /\ cursor_x >= 1
    /\ cursor_x < Len(At(lines, cursor_y))
    /\ Len(At(lines, cursor_y)) = SearchLen + 1

\* C23: a Find that moves the cursor to a match reports a wrapped find
\* exactly when the row of the match is above the row it started from, and a
\* plain find when the match is on that row or below it; a Find without a
\* match reports not found, as an error.
C23_FindReport ==
    [][\A input_str \in QueryInput :
          LET q == prompt_search(input_str)
          IN  q # None /\ FindWith(input_str) =>
                \/ /\ message' = "Found (wrapped)"
                   /\ message_type' = "success"
                   /\ Occurs(lines, q, cursor_y', cursor_x')
                   /\ cursor_y' < cursor_y
                \/ /\ message' = "Found"
                   /\ message_type' = "success"
                   /\ Occurs(lines, q, cursor_y', cursor_x')
                   /\ cursor_y' >= cursor_y
                \/ /\ message' = "not found"
                   /\ message_type' = "error"
                   /\ SameRowAfter(q) \cup RowsBelow(q) \cup RowsAbove(q) = {}
                   /\ UNCHANGED <<cursor_y, cursor_x>>]_vars

\* a Find from a lower row has found its match on the first row, past the
\* first column
C23_Witness ==
    /\ message = "Found (wrapped)"
    /\ message_type = "success"
    /\ cursor_y = 0
    /\ cursor_x > 0
    /\ Len(lines) = SearchLines

\* C24: where the cursor is inside the window, move_cursor(0, 0) and then
\* adjust_scroll() leave both offsets as they are.
C24_NullMoveKeepsOffsets ==
    mode = "Editing" /\ CursorInWindow =>
        LET e == adjust_scroll(move_cursor(Self, 0, 0))
        IN  /\ e.offset_y = offset_y
            /\ e.offset_x = offset_x

\* C25: Help leads to ShowingHelp, the next key leads back to Editing, and
\* neither changes lines, cursor, offsets, cut buffer, modified or the
\* status message.
C25_Help ==
    [][/\ (KeyHelp => mode' = "ShowingHelp")
       /\ (HelpKey => mode' = "Editing")
       /\ (KeyHelp \/ HelpKey =>
              UNCHANGED <<lines, cursor_y, cursor_x, offset_y, offset_x, cut_buffer,
                          modified, message, message_type>>)]_vars

\* the help is shown over a modified buffer with a message and a cut line
C25_Witness ==
    /\ mode = "ShowingHelp"
    /\ modified
    /\ message = "Pasted line"
    /\ cut_buffer # <<>>

\* C26: while the exit question is open, a step that changes anything is
\* one of the answers yes, no and cancel; any other key leaves the question
\* open and lines, cursor, cut buffer and modified as they are.
C26_OnlyAnswers ==
    [][mode = "ConfirmingExit" =>
          \/ ConfirmYes \/ ConfirmNo \/ ConfirmCancel
          \/ /\ ConfirmOther
             /\ mode' = "ConfirmingExit"
             /\ UNCHANGED <<lines, cursor_y, cursor_x, cut_buffer, modified>>]_vars

\* the exit question is open over a buffer with text and a cut line
C26_Witness ==
    /\ mode = "ConfirmingExit"
    /\ cut_buffer # <<>>
    /\ lines # <<<<>>>>
    /\ cursor_x > 0

\* C27: the program started on a path that does not exist has one empty
\* line, modified false and an informational message; started on a file that
\* exists and is empty, or that cannot be read, it has one empty line too, and
\* a failure to read sets an error message.
C27_LoadCases ==
    [][Relaunch /\ filename # None =>
          \/ /\ disk[filename] # NoFile
             /\ message' = "Error reading"
             /\ message_type' = "error"
             /\ lines' = <<<<>>>>
          \/ /\ disk[filename] = NoFile
             /\ message' = "New File"
             /\ message_type' = "info"
             /\ lines' = <<<<>>>>
             /\ ~modified'
          \/ /\ disk[filename] # NoFile
             /\ message' = "Read"
             /\ message_type' = "success"
             /\ (disk[filename] = <<>> => lines' = <<<<>>>>)]_vars

\* the program has been started on a path that does not exist, after a save
\* to it had failed and the editor had been left without saving
C27_Witness ==
    /\ mode = "Editing"
    /\ message = "New File"
    /\ message_type = "info"
    /\ lines = <<<<>>>>
    /\ ~modified
    /\ filename # None
    /\ disk[filename] = NoFile

\* v brought into lo..hi
Clamp(v, lo, hi) == IF v < lo THEN lo ELSE IF v > hi THEN hi ELSE v

\* the cursor after the step is the cursor before it moved by (dy, dx): the
\* row clamped to the buffer, then the column clamped to the line of that row
MovedBy(dy, dx) ==
    /\ cursor_y' = Clamp(cursor_y + dy, 0, Len(lines) - 1)
    /\ cursor_x' = Clamp(cursor_x + dx, 0, Len(lines[cursor_y' + 1]))

\* C28: Up, Down, PageUp and PageDown move the row by -1, 1, -height and
\* height, clamped to the buffer, and clamp the column to the line arrived
\* at: the column never grows, and it shrinks exactly when that line is
\* shorter than the column.
C28_MoveCursor ==
    [][/\ (KeyUp => MovedBy(-1, 0))
       /\ (KeyDown => MovedBy(1, 0))
       /\ (KeyPageUp => MovedBy(-height, 0))
       /\ (KeyPageDown => MovedBy(height, 0))
       /\ (KeyUp \/ KeyDown \/ KeyPageUp \/ KeyPageDown =>
              /\ cursor_x' <= cursor_x
              /\ (cursor_x' < cursor_x <=> Len(lines[cursor_y' + 1]) < cursor_x)
              /\ lines' = lines)]_vars

\* in a window of one row, reached by a resize, the cursor has come down to
\* the last of several lines, below a longer one, at the end of that line
C28_Witness ==
    /\ mode = "Editing"
    /\ Len(lines) = SearchLines
    /\ cursor_y = Len(lines) - 1
    /\ cursor_x = Len(At(lines, cursor_y))
    /\ cursor_x >= 1
    /\ Len(At(lines, cursor_y - 1)) > cursor_x
    /\ height = 1
    /\ offset_y = cursor_y

\* C29: Left at column 0 below the first row goes to the end of the
\* previous line, Right at the end of a line that has a next line goes to
\* column 0 of that line, Left at (0, 0) and Right at the end of the last
\* line leave the cursor where it is, and every other Left or Right moves the
\* cursor by one column within its line; none of them changes the lines or
\* the modified flag.
C29_LeftRight ==
    [][/\ (KeyLeft =>
              IF cursor_x = 0
              THEN IF cursor_y > 0
                   THEN /\ cursor_y' = cursor_y - 1
                        /\ cursor_x' = Len(At(lines, cursor_y - 1))
                   ELSE cursor_y' = cursor_y /\ cursor_x' = cursor_x
              ELSE cursor_y' = cursor_y /\ cursor_x' = cursor_x - 1)
       /\ (KeyRight =>
              IF cursor_x = Len(At(lines, cursor_y))
              THEN IF cursor_y < Len(lines) - 1
                   THEN cursor_y' = cursor_y + 1 /\ cursor_x' = 0
                   ELSE cursor_y' = cursor_y /\ cursor_x' = cursor_x
              ELSE cursor_y' = cursor_y /\ cursor_x' = cursor_x + 1)
       /\ (KeyLeft \/ KeyRight => lines' = lines /\ modified' = modified)]_vars

\* the keys that always end in adjust_scroll() and change no text
AlwaysResyncs ==
    KeyUp \/ KeyDown \/ KeyPageUp \/ KeyPageDown \/ KeyHome \/ KeyEnd

\* off2 is off, unless cur is outside [off, off + size), and then it is the
\* nearest offset whose window holds cur
NearestBoundary(cur, off, off2, size) ==
    /\ cur < off => off2 = cur
    /\ cur >= off + size => off2 = cur - size + 1
    /\ (off <= cur /\ cur < off + size) => off2 = off

\* C30: a key that ends in adjust_scroll() leaves an offset alone when the
\* new cursor is inside the old window on that axis, and otherwise moves it
\* to the nearest boundary (the cursor itself when it is before the window,
\* the cursor minus the size plus one when it is past it); afterwards the
\* cursor is inside the window on both axes.
C30_AdjustScroll ==
    [][AlwaysResyncs =>
          /\ NearestBoundary(cursor_y', offset_y, offset_y', height)
          /\ NearestBoundary(cursor_x', offset_x, offset_x', width)
          /\ offset_y' <= cursor_y' /\ cursor_y' < offset_y' + height
          /\ offset_x' <= cursor_x' /\ cursor_x' < offset_x' + width]_vars

\* in a window of one row and one column, reached by a resize, both offsets
\* have followed a cursor that was past the window on both axes
C30_Witness ==
    /\ mode = "Editing"
    /\ height = 1 /\ width = 1
    /\ cursor_y >= 1 /\ cursor_x >= 2
    /\ offset_y = cursor_y /\ offset_x = cursor_x

\* C31: typing the printable character ch with the cursor at (r, c) puts ch
\* into line r between the first c characters and the rest (after the line
\* when c is past its end), leaves every other line as it was, keeps the
\* row, advances the column by one and sets modified.
C31_Typing ==
    [][\A ch \in SearchAlphabet :
          TypeChar(ch) =>
              LET old == lines[cursor_y + 1]
                  new == lines'[cursor_y + 1]
                  k   == Min(cursor_x, Len(old))
              IN  /\ Len(lines') = Len(lines)
                  /\ \A i \in 1..Len(lines) : i # cursor_y + 1 => lines'[i] = lines[i]
                  /\ Len(new) = Len(old) + 1
                  /\ \A j \in 1..k : new[j] = old[j]
                  /\ new[k + 1] = ch
                  /\ \A j \in (k + 1)..Len(old) : new[j + 1] = old[j]
                  /\ cursor_y' = cursor_y
                  /\ cursor_x' = cursor_x + 1
                  /\ modified']_vars

\* a space has been typed between the two characters of a saved line
C31_Witness ==
    /\ mode = "Editing"
    /\ filename # None
    /\ disk[filename] = FileText(<<<<"a", "a">>>>)
    /\ lines = <<<<"a", SP, "a">>>>
    /\ cursor_y = 0 /\ cursor_x = 2
    /\ modified

\* C32: Find never changes the lines, the modified flag or the cut buffer,
\* and a Find that reports that the query was not found also leaves the
\* cursor and both offsets as they were.
C32_FindFrame ==
    [][KeyFind =>
          /\ lines' = lines
          /\ modified' = modified
          /\ cut_buffer' = cut_buffer
          /\ (message' = "not found" =>
                 /\ cursor_y' = cursor_y /\ cursor_x' = cursor_x
                 /\ offset_y' = offset_y /\ offset_x' = offset_x)]_vars

\* a search has failed in a saved text, with a line in the cut buffer and
\* the cursor inside the line
C32_Witness ==
    /\ mode = "Editing"
    /\ message = "not found" /\ message_type = "error"
    /\ ~modified
    /\ cut_buffer # <<>>
    /\ cursor_x >= 1
    /\ lines # <<<<>>>>

\* C33: a Save that succeeds clears modified, leaves the editor with the
\* name of the file it wrote, sets a message of the success class, and
\* leaves the lines, the cursor, both offsets and the cut buffer as they
\* were.
C33_SaveFrame ==
    [][EditSave /\ message' = "Wrote" =>
          /\ ~modified'
          /\ filename' # None
          /\ disk'[filename'] # NoFile
          /\ \A n \in Names : n # filename' => disk'[n] = disk[n]
          /\ message_type' = "success"
          /\ lines' = lines
          /\ cursor_y' = cursor_y /\ cursor_x' = cursor_x
          /\ offset_y' = offset_y /\ offset_x' = offset_x
          /\ cut_buffer' = cut_buffer]_vars

\* a text of several lines that had no name has been saved, with a line in
\* the cut buffer and the cursor past the end of its line
C33_Witness ==
    /\ mode = "Editing"
    /\ message = "Wrote" /\ message_type = "success"
    /\ ~modified
    /\ filename # None /\ disk[filename] # NoFile
    /\ Len(lines) >= 2
    /\ cut_buffer # <<>>
    /\ cursor_x > Len(At(lines, cursor_y))

\* the number of characters written before line i of l (lines from 1), each
\* earlier line taking its length and one terminator
RECURSIVE StartOf(_, _)
StartOf(l, i) == IF i = 1 THEN 0 ELSE StartOf(l, i - 1) + Len(l[i - 1]) + 1

\* text is the lines of l in order, one terminator between consecutive
\* lines, and one more terminator at the end exactly when the last line is
\* not empty
WrittenAs(text, l) ==
    LET n    == Len(l)
        last == StartOf(l, n) + Len(l[n])
    IN  /\ \A i \in 1..n : \A k \in 1..Len(l[i]) :
              /\ StartOf(l, i) + k <= Len(text)
              /\ text[StartOf(l, i) + k] = l[i][k]
        /\ \A i \in 1..(n - 1) :
              /\ StartOf(l, i + 1) <= Len(text)
              /\ text[StartOf(l, i + 1)] = NL
        /\ IF l[n] # <<>>
           THEN Len(text) = last + 1 /\ text[last + 1] = NL
           ELSE Len(text) = last

\* C34: a Save that succeeds writes the lines with exactly one line
\* terminator between consecutive lines, and one more terminator after the
\* last line if and only if that line is not empty.
C34_WrittenText ==
    [][EditSave /\ message' = "Wrote" /\ filename' # None =>
          WrittenAs(disk'[filename'], lines)]_vars

\* a text whose first line is not empty and whose last two lines are empty
\* has been saved: the file ends with the two terminators between the lines
C34_Witness ==
    /\ mode = "Editing"
    /\ message = "Wrote"
    /\ ~modified
    /\ filename # None
    /\ Len(lines) = SearchLines
    /\ lines[1] # <<>>
    /\ lines[Len(lines)] = <<>>
    /\ lines[Len(lines) - 1] = <<>>
    /\ disk[filename] = lines[1] \o <<NL, NL>>

\* after the step the text, the cursor, the offsets and modified are those
\* of the editor e
SameEditor(e) ==
    /\ lines' = e.lines
    /\ cursor_y' = e.cursor_y /\ cursor_x' = e.cursor_x
    /\ offset_y' = e.offset_y /\ offset_x' = e.offset_x
    /\ modified' = e.modified

\* C35: from every state of atomo.py, a printable character, Tab and
\* Backspace leave the lines, the cursor, the offsets and modified as
\* atomo_commentato.py leaves them from the same state.
C35_SameProgram ==
    [][/\ (KeyTab => SameEditor(insert_char_commentato(Self, TabText)))
       /\ (KeyChar => \E ch \in Chars : SameEditor(insert_char_commentato(Self, <<ch>>)))
       /\ (KeyBackspace => SameEditor(backspace_commentato(Self)))]_vars

\* C36: a step that leaves the lines as they were leaves modified as it
\* was, unless it is a Save that succeeds, which clears it; so Ctrl+K,
\* Backspace and Delete never set modified without changing the text.
C36_ModifiedMeansChanged ==
    [][lines' = lines =>
          \/ modified' = modified
          \/ KeySave /\ message' = "Wrote" /\ ~modified']_vars

\* C37: when the cursor is on a line that is not empty and not the last
\* one, Ctrl+K followed at once by Ctrl+U gives back the lines there were
\* before the cut, with the cursor on the same row at column 0.
C37_CutPaste ==
    [][EditCut /\ At(lines, cursor_y) # <<>> /\ cursor_y < Len(lines) - 1 =>
          LET e == paste_line(Self', cut_buffer')
          IN  /\ e.lines = lines
              /\ e.cursor_y = cursor_y
              /\ e.cursor_x = 0]_vars

\* a line that is neither the first nor the last has been cut and pasted
\* back: it is in the cut buffer and under the cursor
C37_Witness ==
    /\ mode = "Editing"
    /\ message = "Pasted line"
    /\ cut_buffer # <<>>
    /\ cursor_y >= 1 /\ cursor_y < Len(lines) - 1
    /\ cursor_x = 0
    /\ At(lines, cursor_y) = cut_buffer

\* the positions of S after p in (row, column) order
LaterThan(S, p) == {r \in S : r[1] > p[1] \/ (r[1] = p[1] /\ r[2] > p[2])}

\* the position of S that follows p when S is gone through in (row, column)
\* order and started again after its last position
CyclicNext(S, p) ==
    IF LaterThan(S, p) # {} THEN Earliest(LaterThan(S, p)) ELSE Earliest(S)

\* q occurs on two rows at least
OnTwoRows(q) == \E p, r \in Occurrences(lines, q) : p[1] # r[1]

\* C38: when the query occurs on two rows or more, a Find never reports not
\* found and moves the cursor to the occurrence that follows the cursor in
\* (row, column) order, the first occurrence following the last one; so K
\* Finds in a row, K the number of occurrences, visit them all and the next
\* K bring the cursor back.
C38_FindCycles ==
    [][\A input_str \in QueryInput :
          LET q == prompt_search(input_str)
          IN  q # None /\ OnTwoRows(q) /\ FindWith(input_str) =>
                /\ message' # "not found"
                /\ <<cursor_y', cursor_x'>> =
                       CyclicNext(Occurrences(lines, q), <<cursor_y, cursor_x>>)]_vars

\* a Find has wrapped to the first of three or more occurrences, two of
\* them on one row
C38_Witness ==
    /\ mode = "Editing"
    /\ message = "Found (wrapped)"
    /\ OnTwoRows(<<"a">>)
    /\ Cardinality(Occurrences(lines, <<"a">>)) >= 3
    /\ \E y \in 0..(Len(lines) - 1) :
          Cardinality({p \in Occurrences(lines, <<"a">>) : p[1] = y}) >= 2
    /\ <<cursor_y, cursor_x>> = Earliest(Occurrences(lines, <<"a">>))

\* C39: in every reachable state, whatever the sizes the terminal has had,
\* neither offset is negative.
C39_OffsetsNotNegative == offset_y >= 0 /\ offset_x >= 0

\* in a window of two rows and two columns the window has been scrolled
\* down and right and then back left to the cursor, which is not in the
\* first column
C39_Witness ==
    /\ mode = "Editing"
    /\ height = 2 /\ width = 2
    /\ offset_y = 1 /\ cursor_y = 1
    /\ offset_x >= 1 /\ cursor_x = offset_x

====
